---- MODULE Spec2Model ----
(***************************************************************************)
(* Graph construction of gcn_package (src/features/graph_construction.py): *)
(* make_undirected, knn_graph, knn_graph_quantile and make_group_graph.    *)
(*                                                                         *)
(* A matrix is a record [nr, nc, den, a]: nr x nc entries, entry (i,j)     *)
(* having the exact rational value a[<<i,j>>] / den.  Rows and columns are *)
(* numbered from 1 (numpy numbers them from 0).  All arithmetic is exact   *)
(* rational arithmetic; floating-point rounding is not modelled.           *)
(***************************************************************************)
EXTENDS Integers, Sequences, FiniteSets, TLC

\* Largest matrix dimension explored (rows and columns range over 1..MaxDim).
MaxDim == 3
\* Input entries are the integers 0..MaxVal and the negative value -MaxVal.
MaxVal == 2
\* make_group_graph is called on connectomes of at most this dimension.
MaxGroupDim == 2

VARIABLES
  pc,          \* "idle": no call made yet; "done": the call has returned or raised
  fn,          \* the function called ("none" before the call)
  mat,         \* the matrix given as argument mat
  connectomes, \* the list given as argument connectomes (connectomes[1] is mat)
  k,           \* argument k
  selfloops,   \* argument selfloops / self_loops
  symmetric,   \* argument symmetric
  mask,        \* knn_graph: mask; knn_graph_quantile: mask_not_neighbours
  adj,         \* local adj just before the symmetric/return step
  result,      \* the matrix returned; for make_group_graph, avg_conn_k (NoMatrix if none)
  graph,       \* the graph object returned by make_group_graph (NoGraph if none)
  raised       \* "none" or the exception raised

vars == <<pc, fn, mat, connectomes, k, selfloops, symmetric, mask, adj, result, graph, raised>>

----------------------------------------------------------------------------
(* Matrices *)

Values == {-MaxVal} \cup (0..MaxVal)

Idx(r, c) == (1..r) \X (1..c)

Matrix(r, c, d, f) == [nr |-> r, nc |-> c, den |-> d, a |-> f]

\* The diagonal of an input matrix is constant and not negative: 0 on an
\* adjacency matrix without self-loops, the self-connection strength otherwise.
DiagValues == 0..MaxVal

OffDiag(r, c) == {p \in Idx(r, c) : p[1] # p[2]}

\* The r x c input matrices: every entry off the diagonal is any of Values, the
\* diagonal entries share one of DiagValues.
Mats(r, c) ==
  {Matrix(r, c, 1, [p \in Idx(r, c) |-> IF p[1] = p[2] THEN d ELSE f[p]]) :
     f \in [OffDiag(r, c) -> Values], d \in DiagValues}

NoMatrix == Matrix(0, 0, 1, [p \in {} |-> 0])

NoMask == [p \in {} |-> FALSE]

NoGraph == [edge_index |-> <<>>, weight |-> <<>>, den |-> 1]

IsSquare(M) == M.nr = M.nc

Abs(x) == IF x < 0 THEN -x ELSE x

\* ceil(x / d) for d > 0
Ceil(x, d) == -((-x) \div d)

\* np.abs(mat)
MatAbs(M) == Matrix(M.nr, M.nc, M.den, [p \in DOMAIN M.a |-> Abs(M.a[p])])

\* len(np.unique(mat))
NumUnique(M) == Cardinality({M.a[p] : p \in DOMAIN M.a})

\* np.fill_diagonal(adj, 0)
FillDiagonal(M) == Matrix(M.nr, M.nc, M.den, [p \in DOMAIN M.a |-> IF p[1] = p[2] THEN 0 ELSE M.a[p]])

----------------------------------------------------------------------------
(* make_undirected *)

\* sym = (mat + mat.transpose())/2 : the denominator doubles
Average(M) == Matrix(M.nr, M.nc, 2 * M.den, [p \in DOMAIN M.a |-> M.a[p] + M.a[<<p[2], p[1]>>]])

\* np.ceil(sym), kept over sym's denominator
MatCeil(M) == Matrix(M.nr, M.nc, M.den, [p \in DOMAIN M.a |-> Ceil(M.a[p], M.den) * M.den])

\* make_undirected with the transpose forgotten: sym = (mat + mat)/2
MakeUndirectedNoTranspose(M) ==
  LET sym == Matrix(M.nr, M.nc, 2 * M.den, [p \in DOMAIN M.a |-> M.a[p] + M.a[p]])
  IN  IF NumUnique(M) = 2 THEN MatCeil(sym) ELSE sym

\* make_undirected on a square matrix (the shape check is in the callers' actions)
MakeUndirected(M) ==
  LET sym == Average(M)
  IN  IF NumUnique(M) = 2 THEN MatCeil(sym) ELSE sym

----------------------------------------------------------------------------
(* knn_graph *)

\* The k-range check with the upper comparison off by one: (k<=0) or (dim < k)
KnnRangeErrorLax(kk, dim) == (kk <= 0) \/ (dim < kk)

\* k-range check of knn_graph: (k<=0) or (dim <=k)
KnnRangeError(kk, dim) == (kk <= 0) \/ (dim <= kk)

\* m[:,j] : column j as a function of the row
Column(M, j) == [i \in 1..M.nr |-> M.a[<<i, j>>]]

\* M[i,:] : row i as a function of the column
Row(M, i) == [j \in 1..M.nc |-> M.a[<<i, j>>]]

\* v.argsort(): every ordering of the indices with ascending values.  The
\* default sort is not stable, so equal values may come in any order.
ArgSorts(v) ==
  LET n == Cardinality(DOMAIN v)
  IN  {p \in [1..n -> 1..n] :
         /\ \A x, y \in 1..n : x # y => p[x] # p[y]
         /\ \A x, y \in 1..n : x < y => v[p[x]] <= v[p[y]]}

\* The slice without the slot for the self-edge: sorted_ind[-k:]
NeighboursWithoutSelf(sorted_ind, kk) ==
  LET n == Cardinality(DOMAIN sorted_ind)
      first == IF n - kk + 1 < 1 THEN 1 ELSE n - kk + 1
  IN  {sorted_ind[x] : x \in first..n}

\* The slice taken from the wrong end: sorted_ind[:(k + 1)]
NeighboursWeakest(sorted_ind, kk) ==
  LET n == Cardinality(DOMAIN sorted_ind)
      last == IF kk + 1 > n THEN n ELSE kk + 1
  IN  {sorted_ind[x] : x \in 1..last}

\* sorted_ind[-(k + 1):] as a set of row indices
Neighbours(sorted_ind, kk) ==
  LET n == Cardinality(DOMAIN sorted_ind)
      first == IF n - kk < 1 THEN 1 ELSE n - kk
  IN  {sorted_ind[x] : x \in first..n}

\* The neighbour sets the loop body can produce for column j of m
NeighbourChoices(m, j, kk) == {Neighbours(p, kk) : p \in ArgSorts(Column(m, j))}

\* The loop "for i in range(dim)": one neighbour set per column, as a sequence
RECURSIVE LoopChoices(_, _, _)
LoopChoices(m, j, kk) ==
  IF j = 0 THEN {<<>>}
  ELSE {Append(nb, c) : nb \in LoopChoices(m, j - 1, kk), c \in NeighbourChoices(m, j, kk)}

\* mask[:,i][neighbours] = True, starting from np.zeros((dim,dim),dtype=bool)
MaskOf(dim, nb) == [p \in Idx(dim, dim) |-> p[1] \in nb[p[2]]]

\* adj = mat.copy(); adj[~mask] = 0
ApplyMask(M, msk) == Matrix(M.nr, M.nc, M.den, [p \in DOMAIN M.a |-> IF msk[p] THEN M.a[p] ELSE 0])

\* The self-loop test inverted: if selfloops: np.fill_diagonal(adj,0)
DropSelfLoopsInverted(M, keep) == IF keep THEN FillDiagonal(M) ELSE M

\* if not selfloops: np.fill_diagonal(adj,0)
DropSelfLoops(M, keep) == IF ~keep THEN FillDiagonal(M) ELSE M

\* if symmetric: return make_undirected(adj) else: return adj
Symmetrize(M, sym) == IF sym THEN MakeUndirected(M) ELSE M

----------------------------------------------------------------------------
(* knn_graph_quantile *)

\* k-range check of knn_graph_quantile: (k <= 0) or (dim <= k)
QuantileRangeError(kk, dim) == (kk <= 0) \/ (dim <= kk)

\* is_directed = not (mat == mat.transpose()).all()
IsDirected(M) == \E p \in DOMAIN M.a : M.a[p] # M.a[<<p[2], p[1]>>]

\* The x-th smallest value of v (x from 1), i.e. np.sort(v)[x-1]
SortedAt(v, x) ==
  CHOOSE y \in {v[i] : i \in DOMAIN v} :
    /\ Cardinality({i \in DOMAIN v : v[i] < y}) < x
    /\ x <= Cardinality({i \in DOMAIN v : v[i] <= y})

\* np.quantile(v, (dim - k - 1)/dim) with the default linear interpolation, for
\* v of length dim: the virtual index is (dim-k-1)*(dim-1)/dim, and the value
\* lies between the two sorted neighbours of that index.  The result is the
\* numerator of the quantile over the denominator dim * (denominator of v).
Quantile(v, dim, kk) ==
  LET pos == (dim - kk - 1) * (dim - 1)
      lo  == pos \div dim
      r   == pos % dim
      hi  == IF lo + 1 > dim - 1 THEN dim - 1 ELSE lo + 1
  IN  SortedAt(v, lo + 1) * dim + r * (SortedAt(v, hi + 1) - SortedAt(v, lo + 1))

\* quantile_h = np.quantile(mat, (dim - k - 1)/dim, axis=0): one value per column
QuantileH(m, kk) == [j \in 1..m.nc |-> Quantile(Column(m, j), m.nr, kk)]

\* quantile_v = np.quantile(mat, (dim - k - 1)/dim, axis=1): one value per row
QuantileV(m, kk) == [i \in 1..m.nr |-> Quantile(Row(m, i), m.nc, kk)]

\* mat < quantile_h[:, np.newaxis]: the (dim,1) operand is broadcast along the
\* columns, so entry (i,j) is compared with quantile_h[i]
BelowH(m, qh) == [p \in DOMAIN m.a |-> m.a[p] * m.nr < qh[p[1]]]

\* adj < quantile_v[np.newaxis, :]: the (1,dim) operand is broadcast along the
\* rows, so entry (i,j) is compared with quantile_v[j]
BelowV(m, qv) == [p \in DOMAIN m.a |-> m.a[p] * m.nc < qv[p[2]]]

\* mask_not_neighbours of knn_graph_quantile, m being np.abs(mat)
MaskNotNeighbours(m, kk, directed) ==
  LET h == BelowH(m, QuantileH(m, kk))
      v == BelowV(m, QuantileV(m, kk))
  IN  [p \in DOMAIN m.a |-> IF directed THEN h[p] /\ v[p] ELSE h[p]]

\* adj[mask_not_neighbours] = 0
ZeroWhere(M, msk) == Matrix(M.nr, M.nc, M.den, [p \in DOMAIN M.a |-> IF msk[p] THEN 0 ELSE M.a[p]])

----------------------------------------------------------------------------
(* make_group_graph *)

\* np.array(connectomes).mean(axis=0): the entrywise sum over the number of
\* connectomes (the denominator is multiplied by their number)
RECURSIVE SumAt(_, _, _)
SumAt(cs, x, p) == IF x = 0 THEN 0 ELSE SumAt(cs, x - 1, p) + cs[x].a[p]

Mean(cs) ==
  Matrix(cs[1].nr, cs[1].nc, Len(cs) * cs[1].den,
         [p \in DOMAIN cs[1].a |-> SumAt(cs, Len(cs), p)])

\* zip(*A.nonzero()): the positions of the nonzero entries in row-major order
Nonzero(A) ==
  LET pos == [x \in 1..(A.nr * A.nc) |-> <<((x - 1) \div A.nc) + 1, ((x - 1) % A.nc) + 1>>]
      IsNonzero(p) == A.a[p] # 0
  IN  SelectSeq(pos, IsNonzero)

SeqRange(q) == {q[x] : x \in DOMAIN q}

\* Graph.add_edge(u, v, weight=w) on an undirected networkx Graph: adj[u][v]
\* and adj[v][u] hold the same data; a new neighbour goes to the end of the
\* (insertion-ordered) adjacency dict, a known one keeps its place and takes
\* the new weight.
AddEdge(G, u, v, w) ==
  [adj |-> [x \in DOMAIN G.adj |->
              IF x = u /\ v \notin SeqRange(G.adj[x]) THEN Append(G.adj[x], v)
              ELSE IF x = v /\ u \notin SeqRange(G.adj[x]) THEN Append(G.adj[x], u)
              ELSE G.adj[x]],
   w   |-> [p \in DOMAIN G.w |-> IF p = <<u, v>> \/ p = <<v, u>> THEN w ELSE G.w[p]]]

RECURSIVE AddEdges(_, _, _, _)
AddEdges(G, A, es, x) ==
  IF x > Len(es) THEN G
  ELSE AddEdges(AddEdge(G, es[x][1], es[x][2], A.a[es[x]]), A, es, x + 1)

\* nx.convert_matrix.from_numpy_array(avg_conn_k): create_using is not given,
\* so the graph is an undirected nx.Graph on the nodes range(n), with one
\* weighted edge added per nonzero entry, in row-major order.
FromNumpyArray(A) ==
  AddEdges([adj |-> [u \in 1..A.nr |-> <<>>], w |-> [p \in Idx(A.nr, A.nr) |-> 0]],
           A, Nonzero(A), 1)

\* list(G.to_directed().edges): for every node in order, its neighbours in
\* adjacency order; an undirected edge {u,v} gives both (u,v) and (v,u).
RECURSIVE EdgesFrom(_, _)
EdgesFrom(G, u) ==
  IF u > Cardinality(DOMAIN G.adj) THEN <<>>
  ELSE [x \in DOMAIN G.adj[u] |-> <<u, G.adj[u][x]>>] \o EdgesFrom(G, u + 1)

\* tg.utils.from_networkx(graph): edge_index is the directed edge list and
\* the edge attribute weight is parallel to it (numerators over den).
FromNetworkx(G, d) ==
  LET es == EdgesFrom(G, 1)
  IN  [edge_index |-> es, weight |-> [x \in DOMAIN es |-> G.w[es[x]]], den |-> d]

----------------------------------------------------------------------------
(* Calls *)

Shapes == (1..MaxDim) \X (1..MaxDim)

\* Values of the argument k
Ks == 0..MaxDim

\* The collections given to make_group_graph: mat alone, or mat and a second
\* connectome of the same shape; no collection (the empty list) is prepared
\* for a mat of more than MaxGroupDim rows or columns.
Collections(M) ==
  IF M.nr <= MaxGroupDim /\ M.nc <= MaxGroupDim
    THEN {<<M>>} \cup {<<M, B>> : B \in Mats(M.nr, M.nc)}
    ELSE {<<>>}

Init ==
  /\ pc = "idle"
  /\ \E s \in Shapes : mat \in Mats(s[1], s[2])
  /\ connectomes \in Collections(mat)
  /\ fn = "none"
  /\ k = 8
  /\ selfloops = FALSE
  /\ symmetric = TRUE
  /\ mask = NoMask
  /\ adj = NoMatrix
  /\ result = NoMatrix
  /\ graph = NoGraph
  /\ raised = "none"

\* The call fnname(..., k=kk, selfloops=sl, symmetric=sy) is made
Call(fnname, kk, sl, sy) ==
  /\ pc = "idle"
  /\ fn' = fnname
  /\ k' = kk
  /\ selfloops' = sl
  /\ symmetric' = sy

Return(M) ==
  /\ pc' = "done"
  /\ result' = M
  /\ raised' = "none"

Raise(e) ==
  /\ pc' = "done"
  /\ result' = NoMatrix
  /\ raised' = e

\* make_undirected(mat)
CallMakeUndirected ==
  /\ Call("make_undirected", k, selfloops, symmetric)
  /\ IF ~IsSquare(mat)
       THEN Raise("ValueError")
       ELSE Return(MakeUndirected(mat))
  /\ UNCHANGED <<mat, connectomes, mask, adj, graph>>

\* The body of knn_graph(M, kk, sl, sy)
KnnGraphBody(M, kk, sl, sy) ==
  IF ~IsSquare(M)
    THEN Raise("ValueError") /\ UNCHANGED <<mask, adj>>
  ELSE IF KnnRangeError(kk, M.nr)
    THEN Raise("ValueError") /\ UNCHANGED <<mask, adj>>
  ELSE \E nb \in LoopChoices(MatAbs(M), M.nr, kk) :
         /\ mask' = MaskOf(M.nr, nb)
         /\ adj' = DropSelfLoops(ApplyMask(M, mask'), sl)
         /\ Return(Symmetrize(adj', sy))

\* knn_graph(mat, k=kk, selfloops=sl, symmetric=sy)
CallKnnGraph ==
  \E kk \in Ks, sl \in BOOLEAN, sy \in BOOLEAN :
    /\ Call("knn_graph", kk, sl, sy)
    /\ KnnGraphBody(mat, kk, sl, sy)
    /\ UNCHANGED <<mat, connectomes, graph>>

\* knn_graph_quantile(mat, self_loops=sl, k=kk, symmetric=sy)
CallKnnGraphQuantile ==
  \E kk \in Ks, sl \in BOOLEAN, sy \in BOOLEAN :
    /\ Call("knn_graph_quantile", kk, sl, sy)
    /\ IF ~IsSquare(mat)
         THEN Raise("ValueError") /\ UNCHANGED <<mask, adj>>
       ELSE IF QuantileRangeError(kk, mat.nr)
         THEN Raise("ValueError") /\ UNCHANGED <<mask, adj>>
       ELSE /\ mask' = MaskNotNeighbours(MatAbs(mat), kk, IsDirected(mat))
            /\ adj' = DropSelfLoops(ZeroWhere(MatAbs(mat), mask'), sl)
            /\ Return(Symmetrize(adj', sy))
    /\ UNCHANGED <<mat, connectomes, graph>>

\* make_group_graph(connectomes, k=kk, selfloops=sl, symmetric=sy), called on
\* a non-empty collection.  avg_conn_k is recorded in result.
CallMakeGroupGraph ==
  \E kk \in Ks, sl \in BOOLEAN, sy \in BOOLEAN :
    /\ connectomes # <<>>
    /\ Call("make_group_graph", kk, sl, sy)
    /\ IF ~IsSquare(connectomes[1])
         THEN Raise("ValueError") /\ UNCHANGED <<mask, adj>>
         ELSE \E avg_conn \in {Mean(connectomes)} : KnnGraphBody(avg_conn, kk, sl, sy)
    /\ \E avg_conn_k \in {result'} :
         graph' = IF raised' = "none"
                    THEN FromNetworkx(FromNumpyArray(avg_conn_k), avg_conn_k.den)
                    ELSE NoGraph
    /\ UNCHANGED <<mat, connectomes>>

Next ==
  \/ CallMakeUndirected
  \/ CallKnnGraph
  \/ CallKnnGraphQuantile
  \/ CallMakeGroupGraph

Spec == Init /\ [][Next]_vars

----------------------------------------------------------------------------
(* Properties *)

Returned(f) == pc = "done" /\ fn = f /\ raised = "none"

Mirror(p) == <<p[2], p[1]>>

\* The number of nonzero entries of column j of M
NonzeroInColumn(M, j) == Cardinality({i \in 1..M.nr : M.a[<<i, j>>] # 0})

\* The number of rows the keep-mask of knn_graph selects in column j
KeptInColumn(j) == Cardinality({i \in 1..mat.nr : mask[<<i, j>>]})

\* x/dx = y/dy for positive denominators
SameValue(x, dx, y, dy) == x * dy = y * dx

\* C1: the matrix make_undirected returns equals its own transpose, in the
\* averaging branch and in the ceiling branch, whether make_undirected is
\* called directly or as the symmetric step of a kNN builder.
C1_ResultIsSymmetric ==
  /\ Returned("make_undirected") => \A p \in DOMAIN result.a : result.a[p] = result.a[Mirror(p)]
  /\ (pc = "done" /\ raised = "none" /\ fn \in {"knn_graph", "knn_graph_quantile"} /\ symmetric)
       => \A p \in DOMAIN result.a : result.a[p] = result.a[Mirror(p)]

\* C1 witness: make_undirected has returned on an asymmetric 3 x 3 matrix
\* with exactly two distinct values (the ceiling branch).
C1_Witness ==
  /\ Returned("make_undirected")
  /\ mat.nr = 3
  /\ IsDirected(mat)
  /\ NumUnique(mat) = 2

\* C2 (as claimed): for a matrix with exactly two distinct values the result
\* is the entrywise ceiling of the average; an entry pair with exactly one
\* nonzero direction becomes a nonzero integer in both directions; and the
\* result has at most two distinct values.
C2_TwoValuedStaysUnweighted ==
  (Returned("make_undirected") /\ NumUnique(mat) = 2) =>
    /\ \A p \in DOMAIN mat.a :
         SameValue(result.a[p], result.den, Ceil(mat.a[p] + mat.a[Mirror(p)], 2 * mat.den), 1)
    /\ \A p \in DOMAIN mat.a :
         ((mat.a[p] # 0) /\ (mat.a[Mirror(p)] = 0)) =>
            /\ result.a[p] # 0 /\ result.a[p] % result.den = 0
            /\ result.a[Mirror(p)] # 0 /\ result.a[Mirror(p)] % result.den = 0
    /\ NumUnique(result) <= 2

\* C3 (as claimed): knn_graph(M, k, selfloops=True, symmetric=False) has
\* exactly k+1 nonzero entries in every column.
C3_ExactlyKPlusOneNonzero ==
  (Returned("knn_graph") /\ selfloops /\ ~symmetric) =>
    \A j \in 1..mat.nr : NonzeroInColumn(result, j) = k + 1

\* C3 (amended): the keep-mask selects exactly k+1 rows in every column, so
\* every column of the result has at most k+1 nonzero entries, and exactly
\* k+1 when that column of M has at least k+1 nonzero entries.
C3_KPlusOneKeptPerColumn ==
  (Returned("knn_graph") /\ selfloops /\ ~symmetric) =>
    \A j \in 1..mat.nr :
      /\ KeptInColumn(j) = k + 1
      /\ NonzeroInColumn(result, j) <= k + 1
      /\ (NonzeroInColumn(mat, j) >= k + 1) => (NonzeroInColumn(result, j) = k + 1)

\* C3 witness: with k+1 < n, a column of M without any zero is cut down to
\* exactly k+1 nonzero entries.
C3_Witness ==
  /\ Returned("knn_graph") /\ selfloops /\ ~symmetric
  /\ k + 1 < mat.nr
  /\ \E j \in 1..mat.nr :
       /\ NonzeroInColumn(mat, j) = mat.nr
       /\ NonzeroInColumn(result, j) = k + 1

\* C4: a kNN builder called with self-loops disabled returns a matrix whose
\* diagonal is zero, with and without symmetrization (avg_conn_k of
\* make_group_graph is such a result too).
C4_NoSelfLoops ==
  (pc = "done" /\ raised = "none" /\ ~selfloops
     /\ fn \in {"knn_graph", "knn_graph_quantile", "make_group_graph"})
    => \A i \in 1..result.nr : result.a[<<i, i>>] = 0

\* C4 witness: knn_graph with selfloops=False and symmetric=True has returned
\* on a matrix with a nonzero diagonal whose self-edges were all selected,
\* through the ceiling branch of make_undirected.
C4_Witness ==
  /\ Returned("knn_graph") /\ ~selfloops /\ symmetric
  /\ mat.nr = 3 /\ k = 1
  /\ \A i \in 1..mat.nr : mat.a[<<i, i>>] # 0 /\ mask[<<i, i>>]
  /\ NumUnique(adj) = 2
  /\ \E p \in DOMAIN result.a : result.a[p] # 0

\* C5: make_undirected, knn_graph and knn_graph_quantile raise on every
\* non-square matrix; on a square n x n matrix the kNN builders raise exactly
\* when k <= 0 or k >= n; a call that raises returns no matrix and a call
\* that does not raise returns a matrix of the shape of its argument.
C5_ValidationIsExact ==
  (pc = "done" /\ fn \in {"make_undirected", "knn_graph", "knn_graph_quantile"}) =>
    /\ (fn = "make_undirected") => ((raised # "none") <=> (mat.nr # mat.nc))
    /\ (fn # "make_undirected") =>
         ((raised # "none") <=> ((mat.nr # mat.nc) \/ k <= 0 \/ k >= mat.nr))
    /\ (raised # "none") => (raised = "ValueError" /\ result = NoMatrix)
    /\ (raised = "none") =>
         (result.nr = mat.nr /\ result.nc = mat.nc /\ DOMAIN result.a = DOMAIN mat.a)

\* C5 witness: knn_graph has raised for k = n on a square 3 x 3 matrix.
C5_Witness ==
  /\ pc = "done" /\ fn = "knn_graph"
  /\ mat.nr = 3 /\ mat.nc = 3 /\ k = 3
  /\ raised = "ValueError"

\* The numerator (over the denominator n) of the (n-k-1)/n quantile of the
\* magnitudes in column j, and in row i, of mat
TCol(j) == Quantile(Column(MatAbs(mat), j), mat.nr, k)
TRow(i) == Quantile(Row(MatAbs(mat), i), mat.nr, k)

\* C6 (as claimed): in knn_graph_quantile(M, self_loops=True, symmetric=False)
\* entry (i,j) is zeroed exactly when |M[i,j]| is below the threshold of
\* column j and, if M differs from its transpose, also below the threshold of
\* row i; every other entry is kept.
C6_MaskedBelowOwnThresholds ==
  (Returned("knn_graph_quantile") /\ selfloops /\ ~symmetric) =>
    \A p \in DOMAIN mat.a :
      LET below == /\ Abs(mat.a[p]) * mat.nr < TCol(p[2])
                   /\ IsDirected(mat) => (Abs(mat.a[p]) * mat.nr < TRow(p[1]))
      IN  result.a[p] = IF below THEN 0 ELSE Abs(mat.a[p])

\* C7 (as claimed): in knn_graph with symmetric=True, when the masked matrix
\* keeps w # 0 at (i,j) and 0 at (j,i), the result is w/2 at both places.
C7_OneDirectionIsHalved ==
  (Returned("knn_graph") /\ symmetric) =>
    \A p \in DOMAIN adj.a :
      ((adj.a[p] # 0) /\ (adj.a[Mirror(p)] = 0)) =>
         /\ SameValue(result.a[p], result.den, adj.a[p], 2 * adj.den)
         /\ SameValue(result.a[Mirror(p)], result.den, adj.a[p], 2 * adj.den)

\* C8 (as claimed): the edge index of the graph make_group_graph returns is
\* the row-major list of the nonzero positions of avg_conn_k, and the weight
\* sequence holds the entries at these positions in the same order.
C8_EdgesAreNonzeroEntries ==
  Returned("make_group_graph") =>
    /\ graph.edge_index = Nonzero(result)
    /\ graph.den = result.den
    /\ graph.weight = [x \in DOMAIN graph.edge_index |-> result.a[graph.edge_index[x]]]

\* C9: in knn_graph(M, k, selfloops=True, symmetric=False) every entry of the
\* result is 0 or the signed entry of M (the selected entries are the signed
\* originals), and in every column each selected row has a magnitude at
\* least that of each row that was not selected.
C9_SelectedByMagnitudeKeptSigned ==
  (Returned("knn_graph") /\ selfloops /\ ~symmetric) =>
    /\ \A p \in DOMAIN mat.a :
         /\ result.a[p] \in {0, mat.a[p]}
         /\ mask[p] => result.a[p] = mat.a[p]
         /\ ~mask[p] => result.a[p] = 0
    /\ result.den = mat.den
    /\ \A j \in 1..mat.nr : \A i1, i2 \in 1..mat.nr :
         (mask[<<i1, j>>] /\ ~mask[<<i2, j>>]) =>
            Abs(mat.a[<<i1, j>>]) >= Abs(mat.a[<<i2, j>>])

\* C9 witness: with k+1 < n, a negative entry is kept with its sign and a
\* nonzero entry of smaller magnitude of the same column is masked out.
C9_Witness ==
  /\ Returned("knn_graph") /\ selfloops /\ ~symmetric
  /\ k + 1 < mat.nr
  /\ \E j \in 1..mat.nr : \E i1, i2 \in 1..mat.nr :
       /\ mat.a[<<i1, j>>] < 0 /\ result.a[<<i1, j>>] = mat.a[<<i1, j>>]
       /\ mat.a[<<i2, j>>] # 0 /\ result.a[<<i2, j>>] = 0
       /\ Abs(mat.a[<<i2, j>>]) < Abs(mat.a[<<i1, j>>])

\* C10 (as claimed): in knn_graph the self-edge row j is always one of the
\* k+1 rows selected for column j, so that with selfloops=False and
\* symmetric=False every column keeps at most k entries off the diagonal.
C10_SelfEdgeAlwaysSelected ==
  Returned("knn_graph") =>
    /\ \A j \in 1..mat.nr : mask[<<j, j>>]
    /\ (~selfloops /\ ~symmetric) =>
         \A j \in 1..mat.nr :
           Cardinality({i \in 1..mat.nr : i # j /\ result.a[<<i, j>>] # 0}) <= k

====
